---- MODULE Spec2Model ----
(***************************************************************************)
(* A state-machine model of scripts/parse_docx.py (docx2pages): the        *)
(* package reader, the style and numbering resolvers and the block         *)
(* extractor of parse_docx.                                                *)
(*                                                                         *)
(* Strings the code only compares are TLA+ strings.  Strings the code      *)
(* transforms (style names and ids, list levels, paragraph text) are       *)
(* sequences of one-character strings.  An optional value is a sequence    *)
(* of length at most one: None is <<>> and Some(x) is <<x>>.               *)
(***************************************************************************)
EXTENDS Integers, Sequences, FiniteSets, TLC

\* ------------------------------------------------------------------------
\* Bounds of the model
\* ------------------------------------------------------------------------
MaxBody == 3             \* children of w:body, when both catalogs are well-formed
MaxBodyDegraded == 2     \* children of w:body, when a catalog is absent or unusable
MaxStyles == 3           \* styles of a catalog of the style resolver's specification

\* ------------------------------------------------------------------------
\* Python values
\* ------------------------------------------------------------------------
None == <<>>
Some(x) == <<x>>
Val(o) == o[1]

Range(s) == {s[i] : i \in 1..Len(s)}
Max(a, b) == IF a >= b THEN a ELSE b
Last(s) == s[Len(s)]

RECURSIVE Repeat(_, _)
Repeat(x, n) == IF n = 0 THEN <<>> ELSE <<x>> \o Repeat(x, n - 1)

RECURSIVE Concat(_)
Concat(ss) == IF ss = <<>> THEN <<>> ELSE Head(ss) \o Concat(Tail(ss))

\* dict.get(key, 0) + 1 on a dict modelled as a function
DictIncr(d, k) ==
    IF k \in DOMAIN d THEN [d EXCEPT ![k] = @ + 1]
    ELSE [x \in DOMAIN d \cup {k} |-> IF x = k THEN 1 ELSE d[x]]

\* d[k] = v on a dict modelled as a function
DictSet(d, k, v) == [x \in DOMAIN d \cup {k} |-> IF x = k THEN v ELSE d[x]]

EmptyDict == [x \in {} |-> 0]

UpperCase == <<"A", "B", "C", "D", "E", "F", "G", "H", "I", "J", "K", "L", "M",
               "N", "O", "P", "Q", "R", "S", "T", "U", "V", "W", "X", "Y", "Z">>
LowerCase == <<"a", "b", "c", "d", "e", "f", "g", "h", "i", "j", "k", "l", "m",
               "n", "o", "p", "q", "r", "s", "t", "u", "v", "w", "x", "y", "z">>
DigitChars == <<"0", "1", "2", "3", "4", "5", "6", "7", "8", "9">>
SpaceChars == {" ", "\t", "\n"}

\* str.lower()
LowerChar(c) ==
    IF \E i \in DOMAIN UpperCase : UpperCase[i] = c
    THEN LowerCase[CHOOSE i \in DOMAIN UpperCase : UpperCase[i] = c]
    ELSE c
Lower(s) == [i \in 1..Len(s) |-> LowerChar(s[i])]

\* str.replace(' ', '')
RemoveSpaces(s) == SelectSeq(s, LAMBDA c : c # " ")

\* str.startswith(p)
StartsWith(s, p) == Len(s) >= Len(p) /\ SubSeq(s, 1, Len(p)) = p

\* str.isdigit()
IsDigit(s) == Len(s) > 0 /\ \A i \in 1..Len(s) : s[i] \in Range(DigitChars)

\* int(s) for a string of decimal digits
RECURSIVE IntOf(_)
IntOf(s) ==
    IF Len(s) = 0 THEN 0
    ELSE 10 * IntOf(SubSeq(s, 1, Len(s) - 1))
         + (CHOOSE i \in DOMAIN DigitChars : DigitChars[i] = Last(s)) - 1

\* int(s) raises ValueError unless s is an integer literal
IntRaises(s) == ~IsDigit(s)

\* StripNonEmpty of a test that leaves out the strip
NonEmptyUnstripped(s) == s # <<>>

\* str.strip() is non-empty
StripNonEmpty(s) == \E i \in 1..Len(s) : s[i] \notin SpaceChars

\* ------------------------------------------------------------------------
\* String literals of the code and of the inputs, as character sequences
\* ------------------------------------------------------------------------
s_title == <<"t", "i", "t", "l", "e">>
s_subtitle == <<"s", "u", "b", "t", "i", "t", "l", "e">>
s_heading == <<"h", "e", "a", "d", "i", "n", "g">>
s_heading_sp == <<"h", "e", "a", "d", "i", "n", "g", " ">>
s_zero == <<"0">>

nTitle == <<"T", "i", "t", "l", "e">>
nSubtitle == <<"S", "u", "b", "t", "i", "t", "l", "e">>
nHeading1 == <<"H", "e", "a", "d", "i", "n", "g", " ", "1">>
nHeading2 == <<"h", "e", "a", "d", "i", "n", "g", "2">>
nNormal == <<"N", "o", "r", "m", "a", "l">>
nCustom == <<"C", "u", "s", "t", "o", "m">>

\* style ids: "S1", "S2", ...; "S0" is an id no style of a catalog carries
StyleId(i) == <<"S", DigitChars[i + 1]>>
MissingId == StyleId(0)

\* ------------------------------------------------------------------------
\* Inputs: the style catalog (word/styles.xml)
\* A w:style element: styleId and type are attributes (None when missing);
\* name and basedOn are child elements: None when the element is missing,
\* Some(v) when present, v being its w:val attribute (None when missing).
\* ------------------------------------------------------------------------
StyleElem(id, type, name, basedOn) ==
    [styleId |-> id, type |-> type, name |-> name, basedOn |-> basedOn]

PStyle(id, name, parent) ==
    StyleElem(Some(id), Some("paragraph"), Some(Some(name)),
              IF parent = None THEN None ELSE Some(parent))

\* a catalog of n paragraph styles S1..Sn in this order, the i-th named
\* names[i] and based on parents[i]: on nothing, on one of S1..Sn or on a
\* missing id
StyleNames == {nNormal, nHeading1, nHeading2}
StyleParents(n) == {None} \cup {Some(StyleId(j)) : j \in 0..n}
Catalog(n, names, parents) == [i \in 1..n |-> PStyle(StyleId(i), names[i], parents[i])]

XmlData(wellformed, root) == [wellformed |-> wellformed, root |-> root]
Member(present, readable, data) ==
    [present |-> present, readable |-> readable, data |-> data]

\* the catalogs the whole-document specification draws from
HeadingCatalog ==
    << PStyle(nTitle, nTitle, None),
       PStyle(nSubtitle, nSubtitle, None),
       PStyle(StyleId(1), nHeading1, None),
       PStyle(nNormal, nNormal, None),
       PStyle(nCustom, nCustom, Some(StyleId(1))),
       PStyle(StyleId(2), nCustom, Some(nTitle)),
       StyleElem(Some(StyleId(3)), Some("character"), Some(Some(nHeading2)), None) >>

\* a paragraph style whose w:name element has no w:val, and one with neither
\* a w:name element nor a styleId
UnnamedCatalog == << StyleElem(Some(StyleId(1)), Some("paragraph"), Some(None), None) >>
AnonymousCatalog == << StyleElem(None, Some("paragraph"), None, None) >>

StyleCatalogs == {HeadingCatalog, UnnamedCatalog, AnonymousCatalog}

\* ------------------------------------------------------------------------
\* Inputs: the numbering catalog (word/numbering.xml)
\* ------------------------------------------------------------------------
Lvl(ilvl, numFmt) == [ilvl |-> ilvl, numFmt |-> numFmt]
AbstractNum(id, lvls) == [abstractNumId |-> id, lvls |-> lvls]
Num(id, abstractRef) == [numId |-> id, abstractNumId |-> abstractRef]

\* abstract 0: bullets; abstract 1: decimal at level 0, bullet at level 1, no
\* w:numFmt at level 2; list 1 -> abstract 0, list 2 -> abstract 1,
\* list 3 -> an abstract that does not exist, list 4 without w:abstractNumId
MixedNumbering ==
    [abstractNums |->
        << AbstractNum(Some("0"), << Lvl(Some(<<"0">>), Some(Some("bullet"))),
                                     Lvl(Some(<<"1">>), Some(Some("bullet"))) >>),
           AbstractNum(Some("1"), << Lvl(Some(<<"0">>), Some(Some("decimal"))),
                                     Lvl(Some(<<"1">>), Some(Some("bullet"))),
                                     Lvl(Some(<<"2">>), None) >>) >>,
     nums |->
        << Num(Some("1"), Some(Some("0"))),
           Num(Some("2"), Some(Some("1"))),
           Num(Some("3"), Some(Some("7"))),
           Num(Some("4"), None) >>]

NumberingCatalogs == {MixedNumbering}

\* ------------------------------------------------------------------------
\* Inputs: the children of w:body
\* A paragraph carries its descendants that get_text and
\* count_breaks_in_paragraph read (runs), whether w:pPr holds a w:sectPr, the
\* w:val of w:pPr/w:pStyle (None when any of them is missing) and its w:numPr
\* (None when missing; numId and ilvl are None when the element is missing,
\* Some(v) when present with w:val v).
\* ------------------------------------------------------------------------
Node(tag, text, type) == [tag |-> tag, text |-> text, type |-> type]
T(text) == Node("t", text, None)
Tab == Node("tab", <<>>, None)
Cr == Node("cr", <<>>, None)
Br(type) == Node("br", <<>>, type)

NumPr(numId, ilvl) == [numId |-> numId, ilvl |-> ilvl]

Child(tag, runs, sectPr, pStyle, numPr, rows) ==
    [tag |-> tag, runs |-> runs, sectPr |-> sectPr, pStyle |-> pStyle,
     numPr |-> numPr, rows |-> rows]
Para(runs, sectPr, pStyle, numPr) == Child("p", runs, sectPr, pStyle, numPr, <<>>)
ListItem(runs, numId, ilvl) == Para(runs, FALSE, None, Some(NumPr(numId, ilvl)))
Tbl(rows) == Child("tbl", <<>>, FALSE, None, None, rows)
BodySectPr == Child("sectPr", <<>>, FALSE, None, None, <<>>)
Bookmark == Child("bookmarkStart", <<>>, FALSE, None, None, <<>>)

Paragraphs ==
    { Para(<<T(<<"a">>)>>, FALSE, None, None),
      Para(<<T(<<" ">>)>>, FALSE, Some(nNormal), None),
      Para(<<>>, FALSE, Some(StyleId(1)), None),
      Para(<<T(<<"a">>)>>, FALSE, Some(nTitle), None),
      Para(<<T(<<"a">>)>>, FALSE, Some(StyleId(2)), None),
      Para(<<Br(Some("page")), T(<<"a">>)>>, FALSE, None, None),
      Para(<<Br(Some("page"))>>, TRUE, None, None),
      Para(<<T(<<"a">>)>>, FALSE, None, Some(NumPr(Some(Some("0")), None))) }

ListItems ==
    { ListItem(<<T(<<"a">>)>>, Some(Some("1")), None),
      ListItem(<<T(<<"b">>)>>, Some(Some("2")), Some(Some(<<"1">>))),
      ListItem(<<T(<<"c">>)>>, Some(Some("2")), Some(Some(<<"0">>))),
      ListItem(<<T(<<"a">>), Br(Some("page"))>>, Some(Some("1")), None),
      ListItem(<<T(<<"a">>)>>, Some(Some("1")), Some(Some(<<"x">>))) }

\* a table of two rows: the first holds a cell of one paragraph, with a page
\* break, and a cell without paragraph; the second one cell of two paragraphs
Tables ==
    { Tbl(<< << <<<<T(<<"a">>), Br(Some("page"))>>>>, <<>> >>,
             << <<<<>>, <<T(<<"b">>)>>>> >> >>) }

Children == Paragraphs \cup ListItems \cup Tables \cup {BodySectPr, Bookmark}

\* ------------------------------------------------------------------------
\* Inputs: the archive at docx_path
\* path: "zip" (opens), "badzip" (zipfile.BadZipFile), "missing"
\* (FileNotFoundError) or "unopenable" (another OSError, such as
\* PermissionError or IsADirectoryError).
\* ------------------------------------------------------------------------
Archive(path, document, styles, numbering) ==
    [path |-> path, document |-> document, styles |-> styles, numbering |-> numbering]

Absent(empty) == Member(FALSE, FALSE, XmlData(FALSE, empty))
Unreadable(empty) == Member(TRUE, FALSE, XmlData(FALSE, empty))
Malformed(empty) == Member(TRUE, TRUE, XmlData(FALSE, empty))
WellFormed(root) == Member(TRUE, TRUE, XmlData(TRUE, root))
Degraded(empty) == {Absent(empty), Unreadable(empty), Malformed(empty)}

NoRoot == [has_body |-> FALSE]
NoNumbering == [abstractNums |-> <<>>, nums |-> <<>>]

DocumentWithBody == WellFormed([has_body |-> TRUE])
DocumentWithoutBody == WellFormed(NoRoot)

FailingDocMembers == Degraded(NoRoot) \cup {DocumentWithoutBody}
StyleMembers == Degraded(<<>>) \cup {WellFormed(c) : c \in StyleCatalogs}
NumberingMembers == Degraded(NoNumbering) \cup {WellFormed(c) : c \in NumberingCatalogs}

\* archives that do not open; archives whose main document yields no body,
\* with every state of the two catalogs; archives with a body, with at most
\* one catalog degraded, or both absent
Archives ==
    {Archive(p, DocumentWithBody, Absent(<<>>), Absent(NoNumbering)) :
        p \in {"badzip", "missing", "unopenable"}}
    \cup {Archive("zip", d, st, nu) :
            d \in FailingDocMembers, st \in StyleMembers, nu \in NumberingMembers}
    \cup {Archive("zip", DocumentWithBody, st, WellFormed(MixedNumbering)) : st \in StyleMembers}
    \cup {Archive("zip", DocumentWithBody, WellFormed(HeadingCatalog), nu) : nu \in NumberingMembers}
    \cup {Archive("zip", DocumentWithBody, Absent(<<>>), Absent(NoNumbering))}

\* ------------------------------------------------------------------------
\* State
\* ------------------------------------------------------------------------
VARIABLES
    docx,                   \* the archive at docx_path (input)
    preserve_breaks,        \* the flag (input)
    pc,                     \* position in parse_docx; "done" after a return,
                            \* "raised" when an exception left parse_docx
    exc,                    \* the exception that left parse_docx, or None
    zf,                     \* the archive handle: "none", "open", "closed"
    doc_xml, styles_xml, numbering_xml,
    style_info,             \* parse_styles: [keys, at], a dict in insertion order
    resolve_i,              \* parse_styles: position of the loop of line 138
    stack,                  \* get_heading_level: style ids of the active calls
    visited,                \* get_heading_level: the visited set of the walk
    numbering_info,
    body,                   \* the children of w:body iterated so far
    blocks, stats, current_list, current_list_identity,
    origin,                 \* history: for each block, the body children it came from
    cur_origin,             \* history: the same for the items of current_list
    prior                   \* history: the outcome of an earlier call of
                            \* parse_docx on the same input, or None

vars == <<docx, preserve_breaks, pc, exc, zf, doc_xml, styles_xml, numbering_xml,
          style_info, resolve_i, stack, visited, numbering_info, body,
          blocks, stats, current_list, current_list_identity, origin, cur_origin,
          prior>>

inputVars == <<docx, preserve_breaks, prior>>
readVars == <<zf, doc_xml, styles_xml, numbering_xml>>
styleVars == <<style_info, resolve_i, stack, visited>>
bodyVars == <<body, blocks, current_list, current_list_identity, origin, cur_origin>>

EmptyStyleInfo == [keys |-> <<>>, at |-> EmptyDict]
EmptyNumberingInfo == [abstract_nums |-> EmptyDict, nums |-> EmptyDict]

InitialStats ==
    [headings |-> EmptyDict,
     paragraphs |-> 0,
     lists |-> [bulleted |-> 0, numbered |-> 0],
     tables |-> [count |-> 0, max_rows |-> 0, max_cols |-> 0],
     warnings |-> <<>>,
     dropped_breaks |-> 0]

\* the warnings of parse_docx; the text of an exception is not modelled
BadZipWarning == <<"Invalid ZIP file structure">>
FileNotFoundWarning == <<"File not found">>
\* NoDocumentWarning of a reader that reports a missing main document as a bad archive
NoDocumentWarningAsBadZip == <<"Invalid ZIP file structure">>

NoDocumentWarning == <<"No word/document.xml found - invalid DOCX">>
DocumentReadWarning == <<"Error reading document.xml">>
StylesReadWarning == <<"Error reading styles.xml">>
NumberingReadWarning == <<"Error reading numbering.xml">>
MalformedStylesWarning == <<"Malformed styles.xml">>
MalformedNumberingWarning == <<"Malformed numbering.xml">>
MalformedDocumentWarning == <<"Malformed document.xml">>
NoBodyWarning == <<"No body element found in document">>

AddWarning(st, w) == [st EXCEPT !.warnings = Append(@, w)]

InitLocals ==
    /\ exc = None
    /\ style_info = EmptyStyleInfo
    /\ resolve_i = 0
    /\ stack = <<>>
    /\ visited = {}
    /\ numbering_info = EmptyNumberingInfo
    /\ body = <<>>
    /\ blocks = <<>>
    /\ stats = InitialStats
    /\ current_list = None
    /\ current_list_identity = None
    /\ origin = <<>>
    /\ cur_origin = <<>>
    /\ prior = None

Init ==
    /\ docx \in Archives
    /\ preserve_breaks \in BOOLEAN
    /\ pc = "open"
    /\ zf = "none"
    /\ doc_xml = None
    /\ styles_xml = None
    /\ numbering_xml = None
    /\ InitLocals

Return == pc' = "done" /\ exc' = None
Raise(e) == pc' = "raised" /\ exc' = Some(e)
Goto(l) == pc' = l /\ exc' = None

\* ------------------------------------------------------------------------
\* parse_docx: the package reader
\* ------------------------------------------------------------------------
OpenZip ==
    /\ pc = "open"
    /\ CASE docx.path = "badzip" ->
              /\ stats' = AddWarning(stats, BadZipWarning)
              /\ Return
              /\ UNCHANGED zf
         [] docx.path = "missing" ->
              /\ stats' = AddWarning(stats, FileNotFoundWarning)
              /\ Return
              /\ UNCHANGED zf
         [] docx.path = "unopenable" ->
              /\ Raise("OSError")
              /\ UNCHANGED <<stats, zf>>
         [] OTHER ->
              /\ zf' = "open"
              /\ Goto("read_document")
              /\ UNCHANGED stats
    /\ UNCHANGED <<inputVars, doc_xml, styles_xml, numbering_xml, styleVars,
                   numbering_info, bodyVars>>

ReadDocument ==
    /\ pc = "read_document"
    /\ IF ~docx.document.present
       THEN /\ stats' = AddWarning(stats, NoDocumentWarning)
            /\ zf' = "closed"
            /\ Return
            /\ UNCHANGED doc_xml
       ELSE IF ~docx.document.readable
       THEN /\ stats' = AddWarning(stats, DocumentReadWarning)
            /\ zf' = "closed"
            /\ Return
            /\ UNCHANGED doc_xml
       ELSE /\ doc_xml' = Some(docx.document.data)
            /\ Goto("read_styles")
            /\ UNCHANGED <<stats, zf>>
    /\ UNCHANGED <<inputVars, styles_xml, numbering_xml, styleVars, numbering_info, bodyVars>>

ReadStyles ==
    /\ pc = "read_styles"
    /\ IF ~docx.styles.present
       THEN UNCHANGED <<styles_xml, stats>>
       ELSE IF ~docx.styles.readable
       THEN /\ stats' = AddWarning(stats, StylesReadWarning)
            /\ UNCHANGED styles_xml
       ELSE /\ styles_xml' = Some(docx.styles.data)
            /\ UNCHANGED stats
    /\ Goto("read_numbering")
    /\ UNCHANGED <<inputVars, zf, doc_xml, numbering_xml, styleVars, numbering_info, bodyVars>>

ReadNumbering ==
    /\ pc = "read_numbering"
    /\ IF ~docx.numbering.present
       THEN UNCHANGED <<numbering_xml, stats>>
       ELSE IF ~docx.numbering.readable
       THEN /\ stats' = AddWarning(stats, NumberingReadWarning)
            /\ UNCHANGED numbering_xml
       ELSE /\ numbering_xml' = Some(docx.numbering.data)
            /\ UNCHANGED stats
    /\ zf' = "closed"
    /\ Goto("parse_styles")
    /\ UNCHANGED <<inputVars, doc_xml, styles_xml, styleVars, numbering_info, bodyVars>>

\* ------------------------------------------------------------------------
\* parse_styles
\* ------------------------------------------------------------------------
StyleEntry(name, based_on) ==
    [name |-> name, based_on |-> based_on, heading_level |-> None,
     is_title |-> FALSE, is_subtitle |-> FALSE]

\* the loop over w:style elements: si is the dict built so far
RECURSIVE CollectStyles(_, _)
CollectStyles(elems, si) ==
    IF elems = <<>> THEN si
    ELSE LET style == Head(elems)
             style_id == style.styleId
             name == IF style.name # None THEN Val(style.name) ELSE style_id
             based_on == IF style.basedOn # None THEN Val(style.basedOn) ELSE None
         IN  IF style.type # Some("paragraph")
             THEN CollectStyles(Tail(elems), si)
             ELSE CollectStyles(Tail(elems),
                     [keys |-> IF style_id \in DOMAIN si.at THEN si.keys
                               ELSE Append(si.keys, style_id),
                      at |-> DictSet(si.at, style_id, StyleEntry(name, based_on))])

\* the loop over ['heading', 'heading ']: the level of the first pattern that
\* the name starts with and whose suffix is a number
HeadingPatterns == <<s_heading, s_heading_sp>>
PatternLevel(name) ==
    LET Suffix(i) == SubSeq(name, Len(HeadingPatterns[i]) + 1, Len(name))
        hits == {i \in DOMAIN HeadingPatterns :
                    StartsWith(name, HeadingPatterns[i]) /\ IsDigit(Suffix(i))}
    IN  IF hits = {} THEN None
        ELSE Some(IntOf(Suffix(CHOOSE i \in hits : \A j \in hits : i <= j)))

\* the direct level of one style, from its name
DetectLevel(info) ==
    LET name == RemoveSpaces(Lower(Val(info.name)))
    IN  IF name = s_title
        THEN [info EXCEPT !.heading_level = Some(0), !.is_title = TRUE]
        ELSE IF name = s_subtitle
        THEN [info EXCEPT !.heading_level = Some(0), !.is_subtitle = TRUE]
        ELSE [info EXCEPT !.heading_level = PatternLevel(name)]

\* info['name'] is None: None.lower() raises AttributeError
DetectRaises(si) == \E k \in DOMAIN si.at : si.at[k].name = None

DetectLevels(si) == [si EXCEPT !.at = [k \in DOMAIN si.at |-> DetectLevel(si.at[k])]]

ParseStylesBegin ==
    /\ pc = "parse_styles"
    /\ IF styles_xml = None
       THEN /\ style_info' = EmptyStyleInfo
            /\ Goto("parse_numbering")
            /\ UNCHANGED <<stats, resolve_i>>
       ELSE IF ~Val(styles_xml).wellformed
       THEN /\ stats' = AddWarning(stats, MalformedStylesWarning)
            /\ style_info' = EmptyStyleInfo
            /\ Goto("parse_numbering")
            /\ UNCHANGED resolve_i
       ELSE LET collected == CollectStyles(Val(styles_xml).root, EmptyStyleInfo)
            IN  IF DetectRaises(collected)
                THEN /\ Raise("AttributeError")
                     /\ UNCHANGED <<stats, style_info, resolve_i>>
                ELSE /\ style_info' = DetectLevels(collected)
                     /\ resolve_i' = 1
                     /\ Goto("resolve")
                     /\ UNCHANGED stats
    /\ UNCHANGED <<inputVars, readVars, stack, visited, numbering_info, bodyVars>>

\* the loop of the second pass: call get_heading_level for the next style
\* without a level, or return style_info
ResolveStyles ==
    /\ pc = "resolve"
    /\ IF resolve_i > Len(style_info.keys)
       THEN /\ Goto("parse_numbering")
            /\ UNCHANGED <<resolve_i, stack, visited>>
       ELSE IF style_info.at[style_info.keys[resolve_i]].heading_level = None
       THEN /\ stack' = <<style_info.keys[resolve_i]>>
            /\ visited' = {}
            /\ Goto("walk")
            /\ UNCHANGED resolve_i
       ELSE /\ resolve_i' = resolve_i + 1
            /\ Goto("resolve")
            /\ UNCHANGED <<stack, visited>>
    /\ UNCHANGED <<inputVars, readVars, style_info, numbering_info, stats, bodyVars>>

\* StoppedLevel of a resolver that gives a stopped walk level 0
StoppedLevelZero == Some(0)

\* line 127: the value of a call that stops at a visited or unknown style
StoppedLevel == None

\* WalkStops without the visited set
WalkStopsUnvisited(style_id, seen, si) == style_id \notin DOMAIN si.at

\* line 126: the call returns None at once
WalkStops(style_id, seen, si) == style_id \in seen \/ style_id \notin DOMAIN si.at

\* HasParent of a resolver that never follows based_on
HasParentNever(info) == FALSE

\* line 134: a non-empty based_on
HasParent(info) == info.based_on # None /\ Val(info.based_on) # <<>>

\* the value of the outermost call reaches the loop: lines 140-142
AssignLevel(si, style_id, level) ==
    IF level # None THEN [si EXCEPT !.at[style_id].heading_level = level] ELSE si

WalkReturns(level) ==
    /\ style_info' = AssignLevel(style_info, style_info.keys[resolve_i], level)
    /\ resolve_i' = resolve_i + 1
    /\ stack' = <<>>
    /\ visited' = {}
    /\ Goto("resolve")

\* one call of get_heading_level, for the style id on top of the stack; every
\* call returns the value of the call it makes, so a return unwinds the stack
GetHeadingLevel ==
    /\ pc = "walk"
    /\ LET style_id == Last(stack)
       IN  IF WalkStops(style_id, visited, style_info)
           THEN WalkReturns(StoppedLevel)
           ELSE LET info == style_info.at[style_id]
                IN  IF info.heading_level # None
                    THEN WalkReturns(info.heading_level)
                    ELSE IF HasParent(info)
                    THEN /\ stack' = Append(stack, info.based_on)
                         /\ visited' = visited \cup {style_id}
                         /\ Goto("walk")
                         /\ UNCHANGED <<style_info, resolve_i>>
                    ELSE WalkReturns(None)
    /\ UNCHANGED <<inputVars, readVars, numbering_info, stats, bodyVars>>

\* ------------------------------------------------------------------------
\* parse_numbering
\* ------------------------------------------------------------------------
\* the loop over the w:lvl elements of one w:abstractNum
RECURSIVE NumberingLevels(_, _)
NumberingLevels(lvls, levels) ==
    IF lvls = <<>> THEN levels
    ELSE LET lvl == Head(lvls)
             num_fmt == IF lvl.numFmt # None THEN Val(lvl.numFmt) ELSE Some("bullet")
             is_ordered == num_fmt \notin {Some("bullet"), Some("none")}
         IN  NumberingLevels(Tail(lvls),
                 DictSet(levels, lvl.ilvl, [num_fmt |-> num_fmt, is_ordered |-> is_ordered]))

\* the loop over the w:abstractNum elements
RECURSIVE AbstractNums(_, _)
AbstractNums(abstracts, d) ==
    IF abstracts = <<>> THEN d
    ELSE AbstractNums(Tail(abstracts),
             DictSet(d, Head(abstracts).abstractNumId,
                     NumberingLevels(Head(abstracts).lvls, EmptyDict)))

\* the loop over the w:num elements
RECURSIVE Nums(_, _)
Nums(nums, d) ==
    IF nums = <<>> THEN d
    ELSE LET num == Head(nums)
         IN  IF num.abstractNumId # None
             THEN Nums(Tail(nums), DictSet(d, num.numId, Val(num.abstractNumId)))
             ELSE Nums(Tail(nums), d)

ParseNumberingXml(root) ==
    [abstract_nums |-> AbstractNums(root.abstractNums, EmptyDict),
     nums |-> Nums(root.nums, EmptyDict)]

ParseNumbering ==
    /\ pc = "parse_numbering"
    /\ IF numbering_xml = None
       THEN /\ numbering_info' = EmptyNumberingInfo
            /\ UNCHANGED stats
       ELSE IF ~Val(numbering_xml).wellformed
       THEN /\ stats' = AddWarning(stats, MalformedNumberingWarning)
            /\ numbering_info' = EmptyNumberingInfo
       ELSE /\ numbering_info' = ParseNumberingXml(Val(numbering_xml).root)
            /\ UNCHANGED stats
    /\ Goto("parse_document")
    /\ UNCHANGED <<inputVars, readVars, styleVars, bodyVars>>

\* ------------------------------------------------------------------------
\* parse_docx: the main document
\* ------------------------------------------------------------------------
ParseDocument ==
    /\ pc = "parse_document"
    /\ IF ~Val(doc_xml).wellformed
       THEN /\ stats' = AddWarning(stats, MalformedDocumentWarning)
            /\ Return
       ELSE IF ~Val(doc_xml).root.has_body
       THEN /\ stats' = AddWarning(stats, NoBodyWarning)
            /\ Return
       ELSE /\ Goto("body")
            /\ UNCHANGED stats
    /\ UNCHANGED <<inputVars, readVars, styleVars, numbering_info, bodyVars>>

\* ------------------------------------------------------------------------
\* get_text, count_breaks_in_paragraph, get_list_info, parse_table
\* ------------------------------------------------------------------------
\* what one descendant adds to the text
NodeText(node) ==
    IF node.tag = "t" THEN node.text
    ELSE IF node.tag = "tab" THEN <<"\t">>
    ELSE IF node.tag = "br" THEN (IF node.type = None THEN <<"\n">> ELSE <<>>)
    ELSE IF node.tag = "cr" THEN <<"\n">>
    ELSE <<>>

get_text(runs) == Concat([i \in 1..Len(runs) |-> NodeText(runs[i])])

\* count_breaks_in_paragraph without the section break of w:pPr
CountPageBreaksOnly(para) ==
    Cardinality({i \in 1..Len(para.runs) :
                    para.runs[i].tag = "br" /\ para.runs[i].type = Some("page")})

count_breaks_in_paragraph(para) ==
    Cardinality({i \in 1..Len(para.runs) :
                    para.runs[i].tag = "br" /\ para.runs[i].type = Some("page")})
    + (IF para.sectPr THEN 1 ELSE 0)

ListInfo(kind, e, num_id, ilvl, is_ordered) ==
    [kind |-> kind, exc |-> e, num_id |-> num_id, ilvl |-> ilvl, is_ordered |-> is_ordered]
NotListItem == ListInfo("none", "", None, 0, FALSE)
ListInfoRaises(e) == ListInfo("raise", e, None, 0, FALSE)

\* IsOrdered of a lookup that takes a list for ordered when the list id is
\* not in the numbering table
IsOrderedUnlessKnown(num_id, ilvl, ni) ==
    IF num_id \in DOMAIN ni.nums
    THEN LET abstract_id == ni.nums[num_id]
         IN  IF abstract_id \in DOMAIN ni.abstract_nums
             THEN LET levels == ni.abstract_nums[abstract_id]
                  IN  IF ilvl \in DOMAIN levels THEN levels[ilvl].is_ordered ELSE FALSE
             ELSE FALSE
    ELSE TRUE

\* lines 209-215: the lookup list id -> abstract id -> level -> ordered flag
IsOrdered(num_id, ilvl, ni) ==
    IF num_id \in DOMAIN ni.nums
    THEN LET abstract_id == ni.nums[num_id]
         IN  IF abstract_id \in DOMAIN ni.abstract_nums
             THEN LET levels == ni.abstract_nums[abstract_id]
                  IN  IF ilvl \in DOMAIN levels THEN levels[ilvl].is_ordered ELSE FALSE
             ELSE FALSE
    ELSE FALSE

\* kind "none": the paragraph is no list item; "raise": int(ilvl) raises;
\* "item": the returned dict
get_list_info(para, ni) ==
    IF para.numPr = None THEN NotListItem
    ELSE LET num_pr == Val(para.numPr)
         IN  IF num_pr.numId = None THEN NotListItem
             ELSE LET num_id == Val(num_pr.numId)
                      ilvl == IF num_pr.ilvl # None THEN Val(num_pr.ilvl) ELSE Some(s_zero)
                  IN  IF num_id = Some("0") THEN NotListItem
                      ELSE IF ilvl = None THEN ListInfoRaises("TypeError")
                      ELSE IF IntRaises(Val(ilvl)) THEN ListInfoRaises("ValueError")
                      ELSE ListInfo("item", "", num_id, IntOf(Val(ilvl)),
                                    IsOrdered(num_id, ilvl, ni))

get_paragraph_style_id(para) == para.pStyle

\* '\n'.join(texts)
RECURSIVE JoinLines(_)
JoinLines(texts) ==
    IF texts = <<>> THEN <<>>
    ELSE IF Len(texts) = 1 THEN texts[1]
    ELSE texts[1] \o <<"\n">> \o JoinLines(Tail(texts))

\* CellText of a parser that joins the text of every paragraph of the cell
CellTextUnfiltered(tc) == JoinLines([i \in 1..Len(tc) |-> get_text(tc[i])])

CellText(tc) ==
    JoinLines(SelectSeq([i \in 1..Len(tc) |-> get_text(tc[i])], LAMBDA text : text # <<>>))

parse_table(table_rows) ==
    [r \in 1..Len(table_rows) |->
        [c \in 1..Len(table_rows[r]) |-> CellText(table_rows[r][c])]]

\* ------------------------------------------------------------------------
\* parse_docx: the block extractor
\* The locals a step of the loop reads and writes, with the history of where
\* each block came from.
\* ------------------------------------------------------------------------
Locals ==
    [blocks |-> blocks, stats |-> stats, current_list |-> current_list,
     current_list_identity |-> current_list_identity,
     origin |-> origin, cur_origin |-> cur_origin]

SetLocals(L) ==
    /\ blocks' = L.blocks
    /\ stats' = L.stats
    /\ current_list' = L.current_list
    /\ current_list_identity' = L.current_list_identity
    /\ origin' = L.origin
    /\ cur_origin' = L.cur_origin

\* flush_list of an extractor that appends the open list and keeps it open
FlushKeepsOpen(L) ==
    IF L.current_list # None
    THEN [L EXCEPT
            !.blocks = Append(@, Val(L.current_list)),
            !.stats.lists = IF Val(L.current_list).ordered
                            THEN [@ EXCEPT !.numbered = @ + 1]
                            ELSE [@ EXCEPT !.bulleted = @ + 1],
            !.origin = Append(@, L.cur_origin)]
    ELSE L

flush_list(L) ==
    IF L.current_list # None
    THEN [L EXCEPT
            !.blocks = Append(@, Val(L.current_list)),
            !.stats.lists = IF Val(L.current_list).ordered
                            THEN [@ EXCEPT !.numbered = @ + 1]
                            ELSE [@ EXCEPT !.bulleted = @ + 1],
            !.current_list = None,
            !.current_list_identity = None,
            !.origin = Append(@, L.cur_origin),
            !.cur_origin = <<>>]
    ELSE L

BreakBlock == [type |-> "break"]

\* ParagraphBreaks of an extractor that appends one Break block for a
\* paragraph with breaks, however many it holds
ParagraphBreaksOnce(L, break_count, n) ==
    IF break_count > 0
    THEN IF preserve_breaks
         THEN LET F == flush_list(L)
              IN  [F EXCEPT !.blocks = Append(@, BreakBlock),
                            !.origin = Append(@, <<n>>)]
         ELSE [L EXCEPT !.stats.dropped_breaks = @ + break_count]
    ELSE L

\* ParagraphBreaks of an extractor that appends the Break blocks without
\* flushing the open list
ParagraphBreaksUnflushed(L, break_count, n) ==
    IF break_count > 0
    THEN IF preserve_breaks
         THEN [L EXCEPT !.blocks = @ \o Repeat(BreakBlock, break_count),
                        !.origin = @ \o Repeat(<<n>>, break_count)]
         ELSE [L EXCEPT !.stats.dropped_breaks = @ + break_count]
    ELSE L

\* lines 361-368, for child number n of the body
ParagraphBreaks(L, break_count, n) ==
    IF break_count > 0
    THEN IF preserve_breaks
         THEN LET F == flush_list(L)
              IN  [F EXCEPT !.blocks = @ \o Repeat(BreakBlock, break_count),
                            !.origin = @ \o Repeat(<<n>>, break_count)]
         ELSE [L EXCEPT !.stats.dropped_breaks = @ + break_count]
    ELSE L

\* ListIdentity of an extractor that groups by list id alone
ListIdentityById(list_info) == Some(<<list_info.num_id, FALSE>>)

\* lines 376-393
ListIdentity(list_info) == Some(<<list_info.num_id, list_info.is_ordered>>)

AddListItem(L, list_info, text, n) ==
    LET O == IF L.current_list_identity # ListIdentity(list_info)
             THEN [flush_list(L) EXCEPT
                      !.current_list = Some([type |-> "list",
                                             ordered |-> list_info.is_ordered,
                                             items |-> <<>>]),
                      !.current_list_identity = ListIdentity(list_info)]
             ELSE L
    IN  [O EXCEPT !.current_list = Some([Val(@) EXCEPT !.items =
                        Append(@, [text |-> text, level |-> list_info.ilvl])]),
                  !.cur_origin = Append(@, n)]

\* lines 398-426
HeadingKey(block) ==
    IF block.type = "heading" THEN <<"level_", block.level>> ELSE <<block.type>>

Classify(L, style_id, text, n) ==
    LET known == style_id # None /\ Val(style_id) # <<>> /\ style_id \in DOMAIN style_info.at
        heading_level == IF known THEN style_info.at[style_id].heading_level ELSE None
        is_title == IF known THEN style_info.at[style_id].is_title ELSE FALSE
        is_subtitle == IF known THEN style_info.at[style_id].is_subtitle ELSE FALSE
        block == IF heading_level # None
                 THEN IF is_title THEN [type |-> "title", text |-> text]
                      ELSE IF is_subtitle THEN [type |-> "subtitle", text |-> text]
                      ELSE [type |-> "heading", level |-> Val(heading_level), text |-> text]
                 ELSE [type |-> "paragraph", text |-> text]
        S == IF heading_level # None
             THEN [L EXCEPT !.stats.headings = DictIncr(@, HeadingKey(block))]
             ELSE [L EXCEPT !.stats.paragraphs = @ + 1]
    IN  IF StripNonEmpty(text) \/ block.type \in {"heading", "title", "subtitle"}
        THEN [S EXCEPT !.blocks = Append(@, block), !.origin = Append(@, <<n>>)]
        ELSE S

\* the bodies explored: longer ones when both catalogs are well-formed
BodyBound ==
    IF docx.styles.data.wellformed /\ docx.numbering.data.wellformed
    THEN MaxBody ELSE MaxBodyDegraded
MoreChildren == pc = "body" /\ Len(body) < BodyBound

\* lines 357-426: one pass of the loop for the paragraph child
ParagraphStep(child) ==
    /\ body' = Append(body, child)
    /\ LET n == Len(body) + 1
           L == ParagraphBreaks(Locals, count_breaks_in_paragraph(child), n)
           text == get_text(child.runs)
           style_id == get_paragraph_style_id(child)
           list_info == get_list_info(child, numbering_info)
       IN  IF list_info.kind = "raise"
           THEN SetLocals(L) /\ Raise(list_info.exc)
           ELSE IF list_info.kind = "item"
           THEN SetLocals(AddListItem(L, list_info, text, n)) /\ Goto("body")
           ELSE SetLocals(Classify(flush_list(L), style_id, text, n)) /\ Goto("body")
    /\ UNCHANGED <<inputVars, readVars, styleVars, numbering_info>>

BodyParagraph ==
    /\ MoreChildren
    /\ \E child \in Children :
        /\ child.tag = "p"
        /\ ParagraphStep(child)

\* MaxLen of an extractor that takes the number of rows for the number of
\* columns
RowCount(rows) == Len(rows)

\* max(len(r) for r in rows)
RECURSIVE MaxLen(_)
MaxLen(rows) == IF rows = <<>> THEN 0 ELSE Max(Len(Head(rows)), MaxLen(Tail(rows)))

\* lines 428-439
AddTable(L, rows, n) ==
    LET F == flush_list(L)
        B == [F EXCEPT !.blocks = Append(@, [type |-> "table", rows |-> rows]),
                       !.origin = Append(@, <<n>>),
                       !.stats.tables.count = @ + 1]
    IN  IF rows # <<>>
        THEN [B EXCEPT !.stats.tables.max_rows = Max(@, Len(rows)),
                       !.stats.tables.max_cols = Max(@, MaxLen(rows))]
        ELSE B

\* lines 428-439: one pass of the loop for the table child
TableStep(child) ==
    /\ body' = Append(body, child)
    /\ SetLocals(AddTable(Locals, parse_table(child.rows), Len(body) + 1))
    /\ Goto("body")
    /\ UNCHANGED <<inputVars, readVars, styleVars, numbering_info>>

BodyTable ==
    /\ MoreChildren
    /\ \E child \in Children :
        /\ child.tag = "tbl"
        /\ TableStep(child)

\* SectionBreak of an extractor that, when it preserves the break, closes the
\* open list without appending it
SectionBreakClosesList(L, n) ==
    IF preserve_breaks
    THEN [L EXCEPT !.blocks = Append(@, BreakBlock), !.origin = Append(@, <<n>>),
                   !.current_list = None, !.current_list_identity = None,
                   !.cur_origin = <<>>]
    ELSE [L EXCEPT !.stats.dropped_breaks = @ + 1]

\* lines 441-448
SectionBreak(L, n) ==
    IF preserve_breaks
    THEN LET F == flush_list(L)
         IN  [F EXCEPT !.blocks = Append(@, BreakBlock), !.origin = Append(@, <<n>>)]
    ELSE [L EXCEPT !.stats.dropped_breaks = @ + 1]

BodySectionProperties ==
    /\ MoreChildren
    /\ \E child \in Children :
        /\ child.tag = "sectPr"
        /\ body' = Append(body, child)
        /\ SetLocals(SectionBreak(Locals, Len(body) + 1))
    /\ Goto("body")
    /\ UNCHANGED <<inputVars, readVars, styleVars, numbering_info>>

\* OtherNode of an extractor that closes the open list at a child it does
\* not know
OtherNodeFlushes(L) == flush_list(L)

\* lines 354-357, 428, 441: a child with any other tag matches no branch of
\* the loop body, and the loop goes on to the next child
OtherNode(L) == L

BodyOther ==
    /\ MoreChildren
    /\ \E child \in Children :
        /\ child.tag \notin {"p", "tbl", "sectPr"}
        /\ body' = Append(body, child)
    /\ SetLocals(OtherNode(Locals))
    /\ Goto("body")
    /\ UNCHANGED <<inputVars, readVars, styleVars, numbering_info>>

DroppedWarning(n) == <<"Dropped page/section break(s)", n>>

\* lines 450-457: the body has no further child
BodyEnd ==
    /\ pc = "body"
    /\ LET F == flush_list(Locals)
       IN  SetLocals(IF F.stats.dropped_breaks > 0 /\ ~preserve_breaks
                     THEN [F EXCEPT !.stats = AddWarning(@, DroppedWarning(F.stats.dropped_breaks))]
                     ELSE F)
    /\ Return
    /\ UNCHANGED <<inputVars, readVars, styleVars, numbering_info, body>>

Next ==
    \/ OpenZip \/ ReadDocument \/ ReadStyles \/ ReadNumbering
    \/ ParseStylesBegin \/ ResolveStyles \/ GetHeadingLevel
    \/ ParseNumbering \/ ParseDocument
    \/ BodyParagraph \/ BodyTable \/ BodySectionProperties \/ BodyOther \/ BodyEnd

Spec == Init /\ [][Next]_vars

\* ------------------------------------------------------------------------
\* The style resolver alone: parse_styles on every catalog of at most
\* MaxStyles styles, entered as parse_docx enters it
\* ------------------------------------------------------------------------
InitStyles ==
    /\ \E n \in 1..MaxStyles :
        \E names \in [1..n -> StyleNames], parents \in [1..n -> StyleParents(n)] :
            /\ docx = Archive("zip", DocumentWithBody, WellFormed(Catalog(n, names, parents)),
                              Absent(NoNumbering))
            /\ styles_xml = Some(XmlData(TRUE, Catalog(n, names, parents)))
    /\ preserve_breaks = FALSE
    /\ pc = "parse_styles"
    /\ zf = "closed"
    /\ doc_xml = Some(DocumentWithBody.data)
    /\ numbering_xml = None
    /\ InitLocals

NextStyles == ParseStylesBegin \/ ResolveStyles \/ GetHeadingLevel

SpecStyles == InitStyles /\ [][NextStyles]_vars

\* ------------------------------------------------------------------------
\* parse_docx with a read phase that an exception can abort: the handlers of
\* lines 287, 298 and 306 catch Exception, so that a BaseException raised
\* under zf.namelist() or zf.read() (KeyboardInterrupt, SystemExit) leaves
\* the try block of line 278 through its finally clause
\* ------------------------------------------------------------------------
\* a try block without the finally clause
NoFinally == UNCHANGED zf

\* lines 308-309
Finally == zf' = "closed"

ReadInterrupted ==
    /\ pc \in {"read_document", "read_styles", "read_numbering"}
    /\ Finally
    /\ Raise("KeyboardInterrupt")
    /\ UNCHANGED <<inputVars, doc_xml, styles_xml, numbering_xml, styleVars,
                   numbering_info, stats, bodyVars>>

NextInterrupted == Next \/ ReadInterrupted

SpecInterrupted == Init /\ [][NextInterrupted]_vars

\* ------------------------------------------------------------------------
\* The numbering resolver alone: parse_docx from parse_numbering on, for the
\* catalog MixedNumbering and a body of one paragraph with any w:numPr
\* ------------------------------------------------------------------------
\* w:numId and w:ilvl: no element, an element without w:val, or a value
NumIdValues == {None, Some(None)} \cup {Some(Some(v)) : v \in {"0", "1", "2", "3", "4", "9"}}
IlvlValues == {None, Some(None)} \cup {Some(Some(<<v>>)) : v \in {"0", "1", "2", "5", "x"}}
NumberedParagraphs ==
    {Para(<<T(<<"a">>)>>, FALSE, None, None)}
    \cup {Para(<<T(<<"a">>)>>, FALSE, None, Some(NumPr(numId, ilvl))) :
            numId \in NumIdValues, ilvl \in IlvlValues}

InitLists ==
    /\ docx = Archive("zip", DocumentWithBody, Absent(<<>>), WellFormed(MixedNumbering))
    /\ preserve_breaks \in BOOLEAN
    /\ pc = "parse_numbering"
    /\ zf = "closed"
    /\ doc_xml = Some(DocumentWithBody.data)
    /\ styles_xml = None
    /\ numbering_xml = Some(XmlData(TRUE, MixedNumbering))
    /\ InitLocals

NumberedParagraph ==
    /\ pc = "body" /\ body = <<>>
    /\ \E child \in NumberedParagraphs : ParagraphStep(child)

NextLists == ParseNumbering \/ ParseDocument \/ NumberedParagraph \/ BodyEnd

SpecLists == InitLists /\ [][NextLists]_vars

\* ------------------------------------------------------------------------
\* Two calls of parse_docx, one after the other, on the same archive with the
\* same flag, for bodies of at most MaxBodyTwice children
\* ------------------------------------------------------------------------
MaxBodyTwice == 1   \* children of the body when parse_docx is called twice

\* statistics that outlive the call: a record created once for all calls
StatsOfModule == stats

\* lines 258-266: the blocks and the statistics a call starts with
CallBlocks == <<>>
CallStats == InitialStats

Outcome == [pc |-> pc, exc |-> exc, body |-> body, blocks |-> blocks, stats |-> stats]

\* the caller calls parse_docx again once the first call has ended
CallAgain ==
    /\ pc \in {"done", "raised"}
    /\ prior = None
    /\ prior' = Some(Outcome)
    /\ pc' = "open" /\ exc' = None
    /\ zf' = "none"
    /\ doc_xml' = None /\ styles_xml' = None /\ numbering_xml' = None
    /\ style_info' = EmptyStyleInfo /\ resolve_i' = 0 /\ stack' = <<>> /\ visited' = {}
    /\ numbering_info' = EmptyNumberingInfo
    /\ body' = <<>>
    /\ blocks' = CallBlocks
    /\ stats' = CallStats
    /\ current_list' = None /\ current_list_identity' = None
    /\ origin' = <<>> /\ cur_origin' = <<>>
    /\ UNCHANGED <<docx, preserve_breaks>>

\* the same input: the second call iterates the children the first one did
SameBody ==
    prior # None =>
        /\ Len(body') <= Len(Val(prior).body)
        /\ SubSeq(Val(prior).body, 1, Len(body')) = body'
        /\ pc = "body" /\ pc' = "done" => body = Val(prior).body

NextTwice ==
    \/ Next /\ Len(body') <= MaxBodyTwice /\ SameBody
    \/ CallAgain

SpecTwice == Init /\ [][NextTwice]_vars

\* ------------------------------------------------------------------------
\* The text run collector alone: parse_docx at the body loop, for a body of
\* one paragraph whose descendants are any sequence of at most MaxRuns nodes
\* ------------------------------------------------------------------------
MaxRuns == 4    \* descendants of the paragraph

\* w:t with text, with text that starts and ends with a space, and without
\* text; w:tab; w:cr; w:br without type, of type page and of another type
TextNodes ==
    { T(<<"A">>), T(<<" ", "B", " ">>), T(<<>>), Tab, Cr,
      Br(None), Br(Some("page")), Br(Some("textWrapping")) }
RunSeqs == UNION {[1..k -> TextNodes] : k \in 0..MaxRuns}

InitText ==
    /\ docx = Archive("zip", DocumentWithBody, Absent(<<>>), Absent(NoNumbering))
    /\ preserve_breaks \in BOOLEAN
    /\ pc = "body"
    /\ zf = "closed"
    /\ doc_xml = Some(DocumentWithBody.data)
    /\ styles_xml = None
    /\ numbering_xml = None
    /\ InitLocals

TextParagraph ==
    /\ pc = "body" /\ body = <<>>
    /\ \E runs \in RunSeqs : ParagraphStep(Para(runs, FALSE, None, None))

NextText == TextParagraph \/ BodyEnd

SpecText == InitText /\ [][NextText]_vars

\* ------------------------------------------------------------------------
\* The table parser alone: parse_docx at the body loop, for a body of at most
\* MaxTables tables
\* ------------------------------------------------------------------------
MaxTables == 2  \* tables of the body
MaxDim == 5     \* rows, and cells of a row, of a rectangular table

\* the paragraphs of the cell at row r and column c: none, one with text,
\* or an empty one followed by two with text
CellParagraphs(r, c) ==
    IF (r + c) % 3 = 0 THEN <<>>
    ELSE IF (r + c) % 3 = 1 THEN << <<T(<<"a">>)>> >>
    ELSE << <<>>, <<T(<<"b">>)>>, <<T(<<"c">>), Tab>> >>

\* the table whose r-th row has cells[r] cells
TableOf(cells) ==
    Tbl([r \in 1..Len(cells) |-> [c \in 1..cells[r] |-> CellParagraphs(r, c)]])
RectangularTable(n_rows, n_cols) == TableOf([r \in 1..n_rows |-> n_cols])

\* every rectangular table, a table without row, a table of one row without
\* cell, and ragged tables
TableChildren ==
    {RectangularTable(r, c) : r, c \in 1..MaxDim}
    \cup {TableOf(<<>>), TableOf(<<0>>), TableOf(<<2, 0, 3>>), TableOf(<<1, 4>>)}

BodyOfTables ==
    /\ pc = "body" /\ Len(body) < MaxTables
    /\ \E child \in TableChildren : TableStep(child)

NextTables == BodyOfTables \/ BodyEnd

SpecTables == InitText /\ [][NextTables]_vars

\* ------------------------------------------------------------------------
\* Two calls of parse_docx on the same archive, one with preserve_breaks on
\* and one with it off, in either order, for bodies of at most MaxBodyFlags
\* children; the archive has a body and its catalogs are both there, with
\* heading styles and ordered and unordered lists, or both absent
\* ------------------------------------------------------------------------
MaxBodyFlags == 2   \* children of the body when parse_docx is called with both flags

FlagArchives ==
    { Archive("zip", DocumentWithBody, WellFormed(HeadingCatalog), WellFormed(MixedNumbering)),
      Archive("zip", DocumentWithBody, Absent(<<>>), Absent(NoNumbering)) }

InitFlags ==
    /\ docx \in FlagArchives
    /\ preserve_breaks \in BOOLEAN
    /\ pc = "open"
    /\ zf = "none"
    /\ doc_xml = None
    /\ styles_xml = None
    /\ numbering_xml = None
    /\ InitLocals

\* the caller calls parse_docx again, with the other value of the flag, once
\* the first call has ended
CallFlipped ==
    /\ pc \in {"done", "raised"}
    /\ prior = None
    /\ prior' = Some(Outcome)
    /\ preserve_breaks' = ~preserve_breaks
    /\ pc' = "open" /\ exc' = None
    /\ zf' = "none"
    /\ doc_xml' = None /\ styles_xml' = None /\ numbering_xml' = None
    /\ style_info' = EmptyStyleInfo /\ resolve_i' = 0 /\ stack' = <<>> /\ visited' = {}
    /\ numbering_info' = EmptyNumberingInfo
    /\ body' = <<>>
    /\ blocks' = CallBlocks
    /\ stats' = CallStats
    /\ current_list' = None /\ current_list_identity' = None
    /\ origin' = <<>> /\ cur_origin' = <<>>
    /\ UNCHANGED docx

NextFlags ==
    \/ Next /\ Len(body') <= MaxBodyFlags /\ SameBody
    \/ CallFlipped

SpecFlags == InitFlags /\ [][NextFlags]_vars

\* ========================================================================
\* Properties
\* ========================================================================

\* ------------------------------------------------------------------------
\* The whole document
\* ------------------------------------------------------------------------
Returned == pc = "done"
Warnings == stats.warnings
CountOf(seq, x) == Cardinality({i \in DOMAIN seq : seq[i] = x})
BlocksOfType(t) == {i \in DOMAIN blocks : blocks[i].type = t}
IsDroppedWarning(w) == Len(w) = 2
DroppedWarnings == {i \in DOMAIN Warnings : IsDroppedWarning(Warnings[i])}

DocumentUsable ==
    /\ docx.path = "zip"
    /\ docx.document.present /\ docx.document.readable
    /\ docx.document.data.wellformed /\ docx.document.data.root.has_body

CountersAreZero ==
    /\ stats.headings = EmptyDict
    /\ stats.paragraphs = 0
    /\ stats.lists = [bulleted |-> 0, numbered |-> 0]
    /\ stats.tables = [count |-> 0, max_rows |-> 0, max_cols |-> 0]
    /\ stats.dropped_breaks = 0

\* C1: for every input path and both values of preserve_breaks parse_docx
\* returns a result and never raises an error to its caller: no failure
\* mode (a path that cannot be opened, a paragraph style with neither name
\* value nor id, a list level that is not an integer) leaves parse_docx as
\* an exception.
C1_NeverRaises == pc # "raised"

\* the breaks of the body: the page-type w:br of every paragraph that is a
\* child of w:body, one per such paragraph whose w:pPr holds a w:sectPr, one
\* per body-level w:sectPr. The paragraphs of a table cell are text of the
\* Table block (parse_table) and no paragraph node of the extractor: a page
\* break in a cell is neither counted nor preserved.
RECURSIVE PageBreaks(_)
PageBreaks(runs) ==
    IF runs = <<>> THEN 0
    ELSE (IF Head(runs).tag = "br" /\ Head(runs).type = Some("page") THEN 1 ELSE 0)
         + PageBreaks(Tail(runs))
ChildBreaks(child) ==
    IF child.tag = "p" THEN PageBreaks(child.runs) + (IF child.sectPr THEN 1 ELSE 0)
    ELSE IF child.tag = "sectPr" THEN 1
    ELSE 0
RECURSIVE BodyBreaks(_)
BodyBreaks(children) ==
    IF children = <<>> THEN 0 ELSE ChildBreaks(Head(children)) + BodyBreaks(Tail(children))

\* the list-item paragraphs of the body and their identities
ItemInfo(i) == get_list_info(body[i], numbering_info)
IsItem(i) == body[i].tag = "p" /\ ItemInfo(i).kind = "item"
Identity(i) == <<ItemInfo(i).num_id, ItemInfo(i).is_ordered>>
Items == {i \in DOMAIN body : IsItem(i)}

SortedSeq(S) ==
    [k \in 1..Cardinality(S) |-> CHOOSE x \in S : Cardinality({y \in S : y < x}) = k - 1]

\* the runs of list items, in body order, where Continues(i) says that item
\* i belongs to the run of the item before it
Runs(Continues(_)) ==
    LET starts == SortedSeq({i \in Items : ~Continues(i)})
    IN  [k \in DOMAIN starts |->
            SortedSeq({i \in Items : /\ i >= starts[k]
                                     /\ k < Len(starts) => i < starts[k + 1]})]

\* the List block of a run: the items of its paragraphs, in paragraph order
RunBlock(run) ==
    [type |-> "list",
     ordered |-> ItemInfo(run[1]).is_ordered,
     items |-> [k \in DOMAIN run |->
                    [text |-> get_text(body[run[k]].runs), level |-> ItemInfo(run[k]).ilvl]]]

ListBlocks == SelectSeq(blocks, LAMBDA b : b.type = "list")

\* item i follows a list item of its identity, with no paragraph and no
\* table between the two
FollowsSameIdentity(i) ==
    \E j \in Items :
        /\ j < i /\ Identity(j) = Identity(i)
        /\ \A k \in (j + 1)..(i - 1) : body[k].tag \notin {"p", "tbl"}

\* with preserve_breaks on, a break is counted in item i or in a body-level
\* w:sectPr between item i and the list item before it
BreakBefore(i) ==
    /\ preserve_breaks
    /\ \/ ChildBreaks(body[i]) > 0
       \/ \E j \in Items :
            /\ j < i
            /\ \A k \in (j + 1)..(i - 1) : body[k].tag \notin {"p", "tbl"}
            /\ \E k \in (j + 1)..(i - 1) : body[k].tag = "sectPr"

FollowsUnbroken(i) == FollowsSameIdentity(i) /\ ~BreakBefore(i)

\* C2 as stated: for both values of preserve_breaks, every maximal run of
\* consecutive list-item paragraphs of one (list id, ordered flag) identity
\* gives exactly one List block with all their items in paragraph order; only
\* a non-list paragraph, a table or a change of identity splits a run.
C2_OneListPerRun ==
    Returned => ListBlocks = [k \in DOMAIN Runs(FollowsSameIdentity) |->
                                 RunBlock(Runs(FollowsSameIdentity)[k])]

\* C2, amended: the same, where with preserve_breaks on a run is also split
\* before a list item in which a break is counted and at a body-level
\* w:sectPr: every maximal run of consecutive list-item paragraphs of one
\* identity that no such break interrupts gives exactly one List block with
\* all their items in paragraph order.
C2_OneListPerUnbrokenRun ==
    Returned => ListBlocks = [k \in DOMAIN Runs(FollowsUnbroken) |->
                                 RunBlock(Runs(FollowsUnbroken)[k])]

\* a return, with preserve_breaks on, for a body of three list items of one
\* identity, the last with a page break: one List block of two items, then
\* one of one item
C2_Witness ==
    /\ Returned /\ preserve_breaks
    /\ Len(body) = 3 /\ Items = {1, 2, 3}
    /\ FollowsUnbroken(2)
    /\ FollowsSameIdentity(3) /\ BreakBefore(3)
    /\ Len(ListBlocks) = 2
    /\ Len(ListBlocks[1].items) = 2

\* C3: when parse_docx returns for a body with N breaks (BodyBreaks, over
\* the paragraph and section-properties children of the body): with preserve_breaks
\* off there is no Break block, dropped_breaks = N and, when N > 0, exactly
\* one dropped-break warning, which cites N (none when N = 0); with
\* preserve_breaks on there are exactly N Break blocks, dropped_breaks = 0
\* and no dropped-break warning.
C3_BreakAccounting ==
    Returned =>
        LET N == BodyBreaks(body)
        IN  IF preserve_breaks
            THEN /\ Cardinality(BlocksOfType("break")) = N
                 /\ stats.dropped_breaks = 0
                 /\ DroppedWarnings = {}
            ELSE /\ BlocksOfType("break") = {}
                 /\ stats.dropped_breaks = N
                 /\ Cardinality(DroppedWarnings) = (IF N > 0 THEN 1 ELSE 0)
                 /\ \A i \in DroppedWarnings : Warnings[i] = DroppedWarning(N)

\* a return, with preserve_breaks off, for a body with a paragraph that
\* holds a page break and a section break, and a body-level w:sectPr
C3_Witness ==
    /\ Returned /\ ~preserve_breaks
    /\ \E i, j \in DOMAIN body :
        /\ body[i].tag = "p" /\ ChildBreaks(body[i]) = 2
        /\ body[j].tag = "sectPr"
    /\ Last(Warnings) = DroppedWarning(3)

IsPrefix(s, t) == Len(s) <= Len(t) /\ SubSeq(t, 1, Len(s)) = s

\* block p is what the children origin[p] of the body give
ProducedBy(p) ==
    LET b == blocks[p]
        from == origin[p]
    IN  /\ from # <<>>
        /\ \A k \in DOMAIN from : from[k] \in DOMAIN body
        /\ \A k \in 1..(Len(from) - 1) : from[k] < from[k + 1]
        /\ IF b.type = "list"
           THEN /\ Len(b.items) = Len(from)
                /\ \A k \in DOMAIN from :
                    /\ IsItem(from[k])
                    /\ b.items[k].text = get_text(body[from[k]].runs)
           ELSE /\ Len(from) = 1
                /\ IF b.type = "break" THEN ChildBreaks(body[from[1]]) > 0
                   ELSE IF b.type = "table" THEN body[from[1]].tag = "tbl"
                   ELSE body[from[1]].tag = "p" /\ b.text = get_text(body[from[1]].runs)

\* the blocks are in the order of the children they come from; two children
\* share a block only as items of one List block
InDocumentOrder ==
    /\ Len(origin) = Len(blocks)
    /\ \A p \in DOMAIN blocks : ProducedBy(p)
    /\ \A p, q \in DOMAIN blocks :
        \A i \in Range(origin[p]), j \in Range(origin[q]) :
            i < j => p < q \/ (p = q /\ blocks[p].type = "list")

\* C4: the block sequence is in document order: it only ever grows at its
\* end, and for two body children i before j every block that comes from i
\* precedes every block that comes from j, a List block coming from the
\* paragraphs whose items it holds, in paragraph order.
C4_DocumentOrder ==
    /\ []InDocumentOrder
    /\ [][IsPrefix(blocks, blocks')]_vars

\* a return, with preserve_breaks on, with a List block, then a Break block,
\* then the block of the paragraph that held the break
C4_Witness ==
    /\ Returned /\ preserve_breaks
    /\ Len(blocks) = 3
    /\ blocks[1].type = "list" /\ Len(blocks[1].items) = 1
    /\ blocks[2].type = "break"
    /\ blocks[3].type = "paragraph"
    /\ origin = << <<1>>, <<2>>, <<2>> >>

\* C5: when the path is missing or is no zip archive, parse_docx returns no
\* block and exactly one warning; when the archive opens and has no
\* word/document.xml, it returns no block and exactly one warning, which
\* differs from the warning of each of the other two; in all three cases
\* every counter of the statistics is zero.
C5_UnreadableContainer ==
    Returned =>
        /\ docx.path \in {"missing", "badzip"} =>
                blocks = <<>> /\ Len(Warnings) = 1 /\ CountersAreZero
        /\ docx.path = "zip" /\ ~docx.document.present =>
                /\ blocks = <<>> /\ Len(Warnings) = 1 /\ CountersAreZero
                /\ Warnings[1] \notin {BadZipWarning, FileNotFoundWarning}
        /\ docx.path = "badzip" => Warnings = <<BadZipWarning>>
        /\ docx.path = "missing" => Warnings = <<FileNotFoundWarning>>

\* a return for an archive without word/document.xml, whose catalogs are
\* present
C5_Witness ==
    /\ Returned
    /\ docx.path = "zip" /\ ~docx.document.present
    /\ docx.styles.present /\ docx.numbering.present

\* ------------------------------------------------------------------------
\* The style catalog as a graph, read from the input alone
\* ------------------------------------------------------------------------
CatalogRoot == docx.styles.data.root
CatalogIds == {CatalogRoot[i].styleId : i \in DOMAIN CatalogRoot}
CatalogElem(id) == CatalogRoot[CHOOSE i \in DOMAIN CatalogRoot : CatalogRoot[i].styleId = id]

\* the level a style's own name gives it
NamedLevel(id) ==
    LET name == Val(CatalogElem(id).name)
    IN  IF name = Some(nHeading1) THEN Some(1)
        ELSE IF name = Some(nHeading2) THEN Some(2)
        ELSE None

\* the styles met from id along basedOn, id first, at most n of them; the
\* chain ends at a style without basedOn or before an id not in the catalog
RECURSIVE Chain(_, _)
Chain(id, n) ==
    IF n = 0 \/ id \notin CatalogIds THEN <<>>
    ELSE <<id>> \o (IF CatalogElem(id).basedOn = None THEN <<>>
                    ELSE Chain(Val(CatalogElem(id).basedOn), n - 1))

\* the chain never ends: it repeats a style
ChainHasCycle(id) == Len(Chain(id, Cardinality(CatalogIds) + 1)) > Cardinality(CatalogIds)

\* the whole chain, each style once
FullChain(id) == Chain(id, Cardinality(CatalogIds))

\* the level of the first style of the chain that has one by name
NearestLevel(id) ==
    LET c == FullChain(id)
        hits == {i \in DOMAIN c : NamedLevel(c[i]) # None}
    IN  IF hits = {} THEN None
        ELSE NamedLevel(c[CHOOSE i \in hits : \A j \in hits : i <= j])

StylesResolved == pc = "parse_numbering"

\* a variant of parse_styles: the phase, the styles the loop of the second
\* pass has left, and the depth the walk in progress has left
StylesPhase == IF pc = "parse_styles" THEN 2 ELSE IF pc \in {"resolve", "walk"} THEN 1 ELSE 0
StylesVariant ==
    << StylesPhase,
       Len(style_info.keys) + 1 - resolve_i,
       IF pc = "walk" THEN Cardinality(DOMAIN style_info.at) + 1 - Len(stack)
       ELSE Cardinality(DOMAIN style_info.at) + 2 >>
LexLess(a, b) ==
    \/ a[1] < b[1]
    \/ a[1] = b[1] /\ a[2] < b[2]
    \/ a[1] = b[1] /\ a[2] = b[2] /\ a[3] < b[3]

Terminated == pc \in {"done", "raised"}
Opened == docx.path = "zip"
AfterRead == pc \notin {"open", "read_document", "read_styles", "read_numbering"}
\* parse_docx returns after the read phase only once both catalogs are
\* parsed, and raises after the read phase from parse_styles
\* (AttributeError) or from the body
InBody == pc = "body" \/ (pc = "raised" /\ exc # Some("AttributeError") /\ zf = "closed")
AfterNumbering == pc = "parse_document" \/ InBody \/ (Returned /\ zf = "closed" /\ doc_xml # None)
AfterStyles == pc = "parse_numbering" \/ AfterNumbering
MalformedMember(m) == m.present /\ m.readable /\ ~m.data.wellformed
UnreadableMember(m) == m.present /\ ~m.readable
HasBody == docx.document = DocumentWithBody

\* C6: malformed markup in the style catalog or in the numbering catalog
\* adds one warning for that catalog, leaves that resolver with an empty
\* table, and the parse goes on to the next phase; an archive whose main
\* document is malformed ends in a return of no block with the warning of
\* the malformed document, whatever the two catalogs are.
C6_MalformedMarkup ==
    /\ [](/\ Opened /\ MalformedMember(docx.styles) /\ AfterStyles
             => /\ style_info = EmptyStyleInfo
                /\ CountOf(Warnings, MalformedStylesWarning) = 1
          /\ Opened /\ MalformedMember(docx.numbering) /\ AfterNumbering
             => /\ numbering_info = EmptyNumberingInfo
                /\ CountOf(Warnings, MalformedNumberingWarning) = 1
          /\ Opened /\ MalformedMember(docx.document) /\ Terminated
             => /\ Returned
                /\ blocks = <<>>
                /\ CountOf(Warnings, MalformedDocumentWarning) = 1)
    /\ [][/\ pc = "parse_styles" /\ MalformedMember(docx.styles)
             => pc' = "parse_numbering"
          /\ pc = "parse_numbering" /\ MalformedMember(docx.numbering)
             => pc' = "parse_document"
          /\ pc = "parse_document" /\ HasBody => pc' = "body"]_vars

AbsentWarnings(ws) == \A w \in ws : CountOf(Warnings, w) = 0
HeadingTypes == {"title", "subtitle", "heading"}

\* C7: in an archive that holds the main document, an absent style catalog
\* adds no warning about styles and leaves the table that parse_styles gives
\* for a catalog without style, so that no block is a title, a subtitle or a
\* heading; an absent numbering catalog adds no warning about numbering and
\* leaves the table that parse_numbering gives for an empty catalog, so that
\* every List block is unordered; a catalog that is present and fails to
\* read adds its one read warning and no other, and from then on the parse
\* is in the state it has for an absent catalog.
C7_OptionalCatalogs ==
    /\ DetectLevels(CollectStyles(<<>>, EmptyStyleInfo)) = EmptyStyleInfo
    /\ ParseNumberingXml(NoNumbering) = EmptyNumberingInfo
    /\ Opened /\ docx.document.present /\ ~docx.styles.present
       => /\ AbsentWarnings({StylesReadWarning, MalformedStylesWarning})
          /\ styles_xml = None
          /\ AfterStyles => style_info = EmptyStyleInfo
          /\ \A p \in DOMAIN blocks : blocks[p].type \notin HeadingTypes
          /\ stats.headings = InitialStats.headings
    /\ Opened /\ docx.document.present /\ ~docx.numbering.present
       => /\ AbsentWarnings({NumberingReadWarning, MalformedNumberingWarning})
          /\ numbering_xml = None
          /\ AfterNumbering => numbering_info = EmptyNumberingInfo
          /\ \A p \in BlocksOfType("list") : ~blocks[p].ordered
          /\ current_list # None => ~Val(current_list).ordered
    /\ Opened /\ docx.document = DocumentWithBody /\ UnreadableMember(docx.styles)
       => /\ CountOf(Warnings, StylesReadWarning) = (IF pc \in {"open", "read_document", "read_styles"} THEN 0 ELSE 1)
          /\ AbsentWarnings({MalformedStylesWarning})
          /\ styles_xml = None
          /\ AfterStyles => style_info = EmptyStyleInfo
          /\ \A p \in DOMAIN blocks : blocks[p].type \notin HeadingTypes
    /\ Opened /\ docx.document = DocumentWithBody /\ UnreadableMember(docx.numbering)
       => /\ CountOf(Warnings, NumberingReadWarning) = (IF AfterRead THEN 1 ELSE 0)
          /\ AbsentWarnings({MalformedNumberingWarning})
          /\ numbering_xml = None
          /\ AfterNumbering => numbering_info = EmptyNumberingInfo
          /\ \A p \in BlocksOfType("list") : ~blocks[p].ordered

\* a return for an archive without catalog, whose body holds a paragraph of
\* style Title, which gives a Paragraph block, and a list item, which gives
\* a List block
C7_Witness ==
    /\ Returned /\ HasBody
    /\ ~docx.styles.present /\ ~docx.numbering.present
    /\ Warnings = <<>>
    /\ Len(body) = 2
    /\ body[1].tag = "p" /\ body[1].pStyle = Some(nTitle)
    /\ IsItem(2)
    /\ Len(blocks) = 2
    /\ blocks[1].type = "paragraph"
    /\ blocks[2].type = "list"

\* C8: parse_styles terminates for every catalog: every walk of
\* get_heading_level visits each style id at most once (the calls below the
\* innermost one are pairwise distinct styles of the catalog, and they are
\* the visited set), and every step of parse_styles decreases a variant
\* that stays in the natural numbers, so the walk and the resolver return.
C8_WalkIsBounded ==
    /\ \A i \in 1..3 : StylesVariant[i] >= 0
    /\ pc = "walk" =>
        /\ \A i, j \in 1..(Len(stack) - 1) : i # j => stack[i] # stack[j]
        /\ visited = {stack[i] : i \in 1..(Len(stack) - 1)}
        /\ visited \subseteq DOMAIN style_info.at
C8_ResolutionTerminates ==
    /\ []C8_WalkIsBounded
    /\ [][LexLess(StylesVariant', StylesVariant)]_vars

\* a walk that entered a cycle at a style other than the one it started from
\* has returned, as has one that met a missing id and one of a style based
\* on itself
C8_Witness ==
    /\ StylesResolved
    /\ \E a, b, c \in CatalogIds :
        /\ ChainHasCycle(a) /\ a \notin Range(Chain(Val(CatalogElem(a).basedOn), Cardinality(CatalogIds)))
        /\ CatalogElem(b).basedOn = Some(b)
        /\ CatalogElem(c).basedOn = Some(Some(MissingId))

LevelOf(id) == style_info.at[id].heading_level
UnnamedChain(id) == \A i \in DOMAIN FullChain(id) : NamedLevel(FullChain(id)[i]) = None

\* C9 as stated: every style whose based_on chain contains a cycle resolves
\* to no heading level.
C9_CycleMeansNoLevel ==
    StylesResolved => \A id \in CatalogIds : ChainHasCycle(id) => LevelOf(id) = None

\* C9, amended: every style whose based_on chain contains a cycle and no
\* style whose own name gives a level resolves to no heading level, from
\* every style the cycle can be entered from.
C9_UnnamedCycleMeansNoLevel ==
    StylesResolved =>
        \A id \in CatalogIds : ChainHasCycle(id) /\ UnnamedChain(id) => LevelOf(id) = None

\* a resolved catalog with a cycle of two styles and a third style, outside
\* the cycle, based on one of them, none named as a heading
C9_Witness ==
    /\ StylesResolved
    /\ \E a, b, c \in CatalogIds :
        /\ a # b /\ b # c /\ a # c
        /\ CatalogElem(a).basedOn = Some(b)
        /\ CatalogElem(b).basedOn = Some(c)
        /\ CatalogElem(c).basedOn = Some(b)
        /\ UnnamedChain(a)
        /\ LevelOf(a) = None

\* C10: after parse_styles every paragraph style of the catalog is in
\* style_info, and each one whose own name gives no level has the level of
\* the nearest style on its based_on chain whose name gives one, and none
\* when the chain ends, reaches a missing id or repeats a style first; the
\* right-hand side reads the catalog alone, not the order of resolution.
C10_NearestAncestorLevel ==
    StylesResolved =>
        /\ DOMAIN style_info.at = CatalogIds
        /\ \A id \in CatalogIds : NamedLevel(id) = None => LevelOf(id) = NearestLevel(id)

\* a style that inherits, through a style resolved before it and not named
\* as a heading, the level of that style's parent
C10_Witness ==
    /\ StylesResolved
    /\ \E i, j, k \in DOMAIN CatalogRoot :
        /\ j < i
        /\ NamedLevel(CatalogRoot[i].styleId) = None /\ NamedLevel(CatalogRoot[j].styleId) = None
        /\ NamedLevel(CatalogRoot[k].styleId) # None
        /\ CatalogRoot[i].basedOn = Some(CatalogRoot[j].styleId)
        /\ CatalogRoot[j].basedOn = Some(CatalogRoot[k].styleId)
        /\ LevelOf(CatalogRoot[i].styleId) = NamedLevel(CatalogRoot[k].styleId)

\* the style the classifier finds for child i of the body (lines 403-407)
StyleOf(i) ==
    LET style_id == get_paragraph_style_id(body[i])
    IN  IF style_id # None /\ Val(style_id) # <<>> /\ style_id \in DOMAIN style_info.at
        THEN Some(style_info.at[style_id])
        ELSE None
ResolvedLevel(i) == IF StyleOf(i) = None THEN None ELSE Val(StyleOf(i)).heading_level

\* C11: every Heading block has a level in 1..9, and a paragraph whose style
\* has level 0, by its name or by inheritance, gives a Title or a Subtitle
\* block and never a Heading block.
C11_HeadingLevels ==
    \A p \in DOMAIN blocks :
        /\ blocks[p].type = "heading" => blocks[p].level \in 1..9
        /\ /\ blocks[p].type \in HeadingTypes
           /\ ResolvedLevel(origin[p][1]) = Some(0)
           => blocks[p].type \in {"title", "subtitle"}

\* the non-list paragraphs of the body the extractor has classified, and the
\* blocks other than Break blocks that come from child i
IsPlainParagraph(i) == body[i].tag = "p" /\ ItemInfo(i).kind = "none"
ContentBlocks(i) == {p \in DOMAIN blocks : origin[p] = <<i>> /\ blocks[p].type # "break"}
BlankText(i) == \A c \in Range(get_text(body[i].runs)) : c \in SpaceChars

\* C12: a non-list paragraph of blank text (empty or all whitespace) whose
\* style resolves to no level gives no block; a non-list paragraph whose
\* style resolves to a level gives exactly one block, a Title, Subtitle or
\* Heading block with the paragraph's text, also when that text is blank.
C12_EmptyParagraphs ==
    \A i \in DOMAIN body :
        IsPlainParagraph(i) =>
            /\ ResolvedLevel(i) = None /\ BlankText(i) => ContentBlocks(i) = {}
            /\ ResolvedLevel(i) # None =>
                /\ Cardinality(ContentBlocks(i)) = 1
                /\ \A p \in ContentBlocks(i) :
                    /\ blocks[p].type \in HeadingTypes
                    /\ blocks[p].text = get_text(body[i].runs)

\* a return for a body of a blank paragraph of style Normal, which gives no
\* block, and a paragraph without text of a heading style, which gives a
\* Heading block
C12_Witness ==
    /\ Returned
    /\ Len(body) = 2
    /\ IsPlainParagraph(1) /\ BlankText(1) /\ get_text(body[1].runs) # <<>>
    /\ StyleOf(1) # None /\ ResolvedLevel(1) = None
    /\ IsPlainParagraph(2) /\ get_text(body[2].runs) = <<>>
    /\ blocks = << [type |-> "heading", level |-> 1, text |-> <<>>] >>

\* ------------------------------------------------------------------------
\* The text run collector
\* ------------------------------------------------------------------------
\* the text of a paragraph as the sum of its descendants in document order:
\* a text run verbatim, a tab for w:tab, a newline for w:cr and for every
\* w:br whose type is not page, nothing for a w:br of type page
RECURSIVE ExpectedText(_)
ExpectedText(runs) ==
    IF runs = <<>> THEN <<>>
    ELSE LET node == Head(runs)
             piece == IF node.tag = "t" THEN node.text
                      ELSE IF node.tag = "tab" THEN <<"\t">>
                      ELSE IF node.tag = "cr" THEN <<"\n">>
                      ELSE IF node.tag = "br" /\ node.type # Some("page") THEN <<"\n">>
                      ELSE <<>>
         IN  piece \o ExpectedText(Tail(runs))

\* the Paragraph blocks that come from child i
ParagraphBlocks(i) == {p \in DOMAIN blocks : origin[p] = <<i>> /\ blocks[p].type = "paragraph"}

\* C13: the text extracted from every paragraph of the body is the
\* concatenation over its descendants, in document order, of each text run
\* verbatim, a tab per w:tab, a newline per w:cr, a newline per w:br whose
\* type is not page (absent or another value) and nothing per w:br of type
\* page, untrimmed; the Paragraph block of the paragraph holds this text.
C13_TextOfParagraph ==
    \A i \in DOMAIN body :
        body[i].tag = "p" =>
            /\ get_text(body[i].runs) = ExpectedText(body[i].runs)
            /\ \A p \in ParagraphBlocks(i) : blocks[p].text = ExpectedText(body[i].runs)

\* ------------------------------------------------------------------------
\* Tables
\* ------------------------------------------------------------------------
TableChildrenOfBody == {i \in DOMAIN body : body[i].tag = "tbl"}
TableBlocks(i) == {p \in DOMAIN blocks : origin[p] = <<i>> /\ blocks[p].type = "table"}

\* the text of a cell: its paragraphs with text, in order, a newline between
\* two of them; the empty string when there is none
RECURSIVE ExpectedCell(_)
ExpectedCell(paragraphs) ==
    IF paragraphs = <<>> THEN <<>>
    ELSE LET first == get_text(Head(paragraphs))
             rest == ExpectedCell(Tail(paragraphs))
         IN  IF first = <<>> THEN rest
             ELSE IF rest = <<>> THEN first
             ELSE first \o <<"\n">> \o rest

Largest(S) == CHOOSE m \in S \cup {0} : \A x \in S \cup {0} : x <= m

\* C14: every table of the body gives one Table block with one row per w:tr
\* and, in each row, one cell per w:tc of that row, in document order, a
\* cell without paragraph with text being the empty string; max_cols is the
\* largest number of cells of a row of any table.
C14_TablePassthrough ==
    /\ \A i \in TableChildrenOfBody :
        /\ Cardinality(TableBlocks(i)) = 1
        /\ \A p \in TableBlocks(i) :
            LET rows == blocks[p].rows
                trs == body[i].rows
            IN  /\ Len(rows) = Len(trs)
                /\ \A r \in DOMAIN trs :
                    /\ Len(rows[r]) = Len(trs[r])
                    /\ \A c \in DOMAIN trs[r] : rows[r][c] = ExpectedCell(trs[r][c])
    /\ stats.tables.max_cols =
        Largest(UNION {{Len(body[i].rows[r]) : r \in DOMAIN body[i].rows} :
                            i \in TableChildrenOfBody})

\* a return for a body with the ragged table of rows of 2, 0 and 3 cells,
\* whose block keeps these counts and holds an empty string for the cell
\* without paragraph
C14_Witness ==
    /\ Returned
    /\ \E i \in TableChildrenOfBody :
        /\ body[i] = TableOf(<<2, 0, 3>>)
        /\ \E p \in TableBlocks(i) :
            /\ [r \in 1..3 |-> Len(blocks[p].rows[r])] = <<2, 0, 3>>
            /\ blocks[p].rows[1][2] = <<>>
            /\ blocks[p].rows[1][1] = <<"b", "\n", "c", "\t">>
    /\ stats.tables.max_cols >= 3

\* the body of the tables fixture: a table of 3 rows of 3 cells, then a table
\* of 5 rows of 4 cells; and the same with a second table of 4 rows of 5 cells
TablesFixture == <<RectangularTable(3, 3), RectangularTable(5, 4)>>
TablesFixtureTransposed == <<RectangularTable(3, 3), RectangularTable(4, 5)>>
TwoTableBlocks == Len(blocks) = 2 /\ \A p \in DOMAIN blocks : blocks[p].type = "table"

\* C15 as stated: the return for a 3x3 table followed by a 4x5 table, whichever
\* of its two dimensions counts the rows, holds two Table blocks and
\* stats.tables = {count: 2, max_rows: 5, max_cols: 5}.
C15_TwoTablesStats ==
    Returned /\ body \in {TablesFixture, TablesFixtureTransposed} =>
        /\ TwoTableBlocks
        /\ stats.tables = [count |-> 2, max_rows |-> 5, max_cols |-> 5]

\* C15 amended: the return for a 3x3 table followed by a table of 5 rows of 4
\* cells holds two Table blocks and stats.tables = {count: 2, max_rows: 5,
\* max_cols: 4}; followed by a table of 4 rows of 5 cells, {count: 2,
\* max_rows: 4, max_cols: 5}: each maximum is taken on its own over both
\* tables.
C15_TwoTablesMaxima ==
    /\ Returned /\ body = TablesFixture =>
        /\ TwoTableBlocks
        /\ stats.tables = [count |-> 2, max_rows |-> 5, max_cols |-> 4]
    /\ Returned /\ body = TablesFixtureTransposed =>
        /\ TwoTableBlocks
        /\ stats.tables = [count |-> 2, max_rows |-> 4, max_cols |-> 5]

\* the return for the body of the tables fixture
C15_Witness ==
    /\ Returned /\ body = TablesFixture
    /\ [p \in 1..2 |-> Len(blocks[p].rows)] = <<3, 5>>
    /\ stats.tables.count = 2

ReadPhase == {"read_document", "read_styles", "read_numbering"}

\* C17: the handle of an opened archive is open only in the read phase: it
\* is closed when parse_docx has ended, by a return or by an exception, and
\* in every phase that parses XML or extracts blocks; it does not exist when
\* the archive did not open.
C17_HandleClosed ==
    /\ zf = "open" => pc \in ReadPhase
    /\ Opened /\ pc \notin ReadPhase \cup {"open"} => zf = "closed"
    /\ ~Opened => zf = "none"

\* the read phase left by an exception after the main document was read
C17_Witness ==
    /\ pc = "raised" /\ exc = Some("KeyboardInterrupt")
    /\ doc_xml # None
    /\ zf = "closed"

\* ------------------------------------------------------------------------
\* The ordered flag
\* ------------------------------------------------------------------------
\* the list id and the level of paragraph i, as written in its w:numPr: None
\* without w:numPr, without w:numId or without its w:val; level "0" without
\* w:ilvl
ListIdOf(i) ==
    LET num_pr == body[i].numPr
    IN  IF num_pr = None THEN None
        ELSE IF Val(num_pr).numId = None THEN None
        ELSE Val(Val(num_pr).numId)
LevelOfItem(i) ==
    LET num_pr == Val(body[i].numPr)
    IN  IF num_pr.ilvl = None THEN Some(s_zero) ELSE Val(num_pr.ilvl)

\* the catalog of the archive says ordered for list id and level: the list
\* refers to an abstract format that exists and holds the level with a format
\* name other than bullet and none
CatalogOrdered(id, level) ==
    LET root == docx.numbering.data.root
    IN  \E n \in Range(root.nums), a \in Range(root.abstractNums) :
            /\ n.numId = id
            /\ n.abstractNumId = Some(a.abstractNumId)
            /\ \E lvl \in Range(a.lvls) :
                /\ lvl.ilvl = level
                /\ lvl.numFmt # None /\ Val(lvl.numFmt) # None
                /\ Val(lvl.numFmt) \notin {Some("bullet"), Some("none")}

\* C18: a paragraph without list id or with list id "0" is no list item;
\* every other paragraph with w:numPr is a list item, without error, whose
\* ordered flag is what the catalog says for its list id and level, false
\* when the list id, the abstract format or the level is missing.
C18_OrderedFlag ==
    \A i \in DOMAIN body :
        body[i].tag = "p" =>
            IF ListIdOf(i) \in {None, Some("0")}
            THEN ItemInfo(i).kind = "none"
            ELSE /\ ItemInfo(i).kind = "item"
                 /\ ItemInfo(i).is_ordered = CatalogOrdered(ListIdOf(i), LevelOfItem(i))

\* ------------------------------------------------------------------------
\* Breaks of a paragraph
\* ------------------------------------------------------------------------
\* a step that iterates a paragraph with breaks
BreakParagraphStep ==
    /\ Len(body') = Len(body) + 1
    /\ Last(body').tag = "p"
    /\ ChildBreaks(Last(body')) > 0

\* C19: in a step for a paragraph with k > 0 breaks: with preserve_breaks on,
\* the blocks become the earlier blocks, then the List block of the list that
\* was open, then k Break blocks, then at most one block, not a Break block,
\* of the paragraph itself; when the paragraph is a list item it is the only
\* item of the list open after the step; dropped_breaks does not change.
\* With preserve_breaks off, dropped_breaks grows by k and no Break block is
\* appended.
C19_BreaksBeforeContent ==
    [][BreakParagraphStep =>
        LET n == Len(body')
            k == ChildBreaks(Last(body'))
            flushed == IF current_list # None THEN <<Val(current_list)>> ELSE <<>>
            before == blocks \o flushed \o [j \in 1..k |-> BreakBlock]
        IN  IF preserve_breaks
            THEN /\ IsPrefix(before, blocks')
                 /\ Len(blocks') <= Len(before) + 1
                 /\ \A p \in (Len(before) + 1)..Len(blocks') :
                        blocks'[p].type # "break" /\ origin'[p] = <<n>>
                 /\ current_list' # None =>
                        /\ Len(Val(current_list').items) = 1
                        /\ cur_origin' = <<n>>
                 /\ stats'.dropped_breaks = stats.dropped_breaks
            ELSE /\ stats'.dropped_breaks = stats.dropped_breaks + k
                 /\ \A p \in (Len(blocks) + 1)..Len(blocks') : blocks'[p].type # "break"
    ]_vars

\* a return, with preserve_breaks on, for two list items of one identity, the
\* second with a page break: the List block of the first, the Break block,
\* the List block of the second
C19_Witness ==
    /\ Returned /\ preserve_breaks
    /\ Len(body) = 2
    /\ IsItem(1) /\ ChildBreaks(body[1]) = 0
    /\ IsItem(2) /\ ChildBreaks(body[2]) = 1
    /\ Identity(1) = Identity(2)
    /\ Len(blocks) = 3
    /\ blocks[1].type = "list" /\ blocks[2] = BreakBlock /\ blocks[3].type = "list"
    /\ origin = << <<1>>, <<2>>, <<2>> >>

\* ------------------------------------------------------------------------
\* The life of a list
\* ------------------------------------------------------------------------
\* the item of list-item paragraph i
ItemOf(i) == [text |-> get_text(body[i].runs), level |-> ItemInfo(i).ilvl]
ItemParagraphs == SortedSeq(Items)

\* the items, and the paragraphs they come from, of the List blocks in output
\* order, followed by those of the open list
OpenItems == IF current_list = None THEN <<>> ELSE Val(current_list).items
ItemsInOutput == Concat([k \in DOMAIN ListBlocks |-> ListBlocks[k].items]) \o OpenItems
ItemOrigins ==
    LET at == SortedSeq(BlocksOfType("list"))
    IN  Concat([k \in DOMAIN at |-> origin[at[k]]]) \o cur_origin

\* the open list stays open, with its items, and is not appended
StaysOpen ==
    /\ current_list' # None
    /\ IsPrefix(Val(current_list).items, Val(current_list').items)
    /\ IsPrefix(cur_origin, cur_origin')
    /\ blocks' = blocks

\* the open list is appended once, as it is, and is no longer the open list
AppendedOnce ==
    /\ IsPrefix(blocks, blocks')
    /\ Cardinality({p \in (Len(blocks) + 1)..Len(blocks') :
                        blocks'[p] = Val(current_list) /\ origin'[p] = cur_origin}) = 1
    /\ Range(cur_origin') \cap Range(cur_origin) = {}

\* C20: the items of the List blocks in output order, followed by the items
\* of the open list, are at every moment the list-item paragraphs iterated so
\* far, in document order; no List block is empty; a step leaves the open list
\* open or appends it exactly once; and when parse_docx returns no list is
\* open, so that the List blocks hold every list-item paragraph of the body
\* once.
C20_ListsAppendedOnce ==
    /\ [](/\ ItemsInOutput = [k \in DOMAIN ItemParagraphs |-> ItemOf(ItemParagraphs[k])]
          /\ ItemOrigins = ItemParagraphs
          /\ \A k \in DOMAIN ListBlocks : ListBlocks[k].items # <<>>
          /\ current_list # None => OpenItems # <<>>
          /\ Returned => current_list = None /\ cur_origin = <<>>)
    /\ [][current_list # None => StaysOpen \/ AppendedOnce]_vars

\* a return for a body of a paragraph and two list items of one identity: the
\* list was open when the iteration ended and is the last block
C20_Witness ==
    /\ Returned
    /\ Len(body) = 3
    /\ ~IsItem(1) /\ IsItem(2) /\ IsItem(3)
    /\ Len(blocks) = 2
    /\ blocks[2].type = "list"
    /\ blocks[2].items = <<ItemOf(2), ItemOf(3)>>

\* ------------------------------------------------------------------------
\* Body children of any other kind
\* ------------------------------------------------------------------------
KnownTags == {"p", "tbl", "sectPr"}
IsOther(i) == body[i].tag \notin KnownTags

\* one pass of the loop for a child that is no paragraph, table or section
\* properties node
OtherNodeStep ==
    /\ pc = "body"
    /\ Len(body') = Len(body) + 1
    /\ Last(body').tag \notin KnownTags

\* list items i < k of one identity with nothing but other nodes, and at
\* least one, between them
AcrossOtherNodes(i, k) ==
    /\ i + 1 < k
    /\ IsItem(i) /\ IsItem(k)
    /\ Identity(i) = Identity(k)
    /\ \A j \in (i + 1)..(k - 1) : IsOther(j)

C22_ParagraphCount ==
    Returned => stats.paragraphs = Cardinality(BlocksOfType("paragraph"))

\* ------------------------------------------------------------------------
\* The two values of preserve_breaks
\* ------------------------------------------------------------------------
\* both calls have returned; the earlier one ran with the other flag
BothReturned == prior # None /\ Returned /\ Val(prior).pc = "done"
ThisRun == [blocks |-> blocks, stats |-> stats]
PriorRun == [blocks |-> Val(prior).blocks, stats |-> Val(prior).stats]
OnRun == IF preserve_breaks THEN ThisRun ELSE PriorRun
OffRun == IF preserve_breaks THEN PriorRun ELSE ThisRun

RECURSIVE WithoutBreaks(_)
WithoutBreaks(bs) ==
    IF bs = <<>> THEN <<>>
    ELSE (IF Head(bs).type = "break" THEN <<>> ELSE <<Head(bs)>>) \o WithoutBreaks(Tail(bs))

\* every List block written as one List block per item
RECURSIVE Unlisted(_)
Unlisted(bs) ==
    IF bs = <<>> THEN <<>>
    ELSE (IF Head(bs).type = "list"
          THEN [k \in DOMAIN Head(bs).items |->
                    [type |-> "list", ordered |-> Head(bs).ordered,
                     items |-> <<Head(bs).items[k]>>]]
          ELSE <<Head(bs)>>) \o Unlisted(Tail(bs))

\* a break lies within a run of list items: two list items of one identity
\* with no paragraph and no table between them, and between them a
\* body-level section-properties node or in the later one a break
BreakInsideRun ==
    \E i \in DOMAIN body : \E k \in DOMAIN body :
        /\ i < k
        /\ IsItem(i) /\ IsItem(k)
        /\ Identity(i) = Identity(k)
        /\ \A j \in (i + 1)..(k - 1) : body[j].tag \notin {"p", "tbl"}
        /\ \/ ChildBreaks(body[k]) > 0
           \/ \E j \in (i + 1)..(k - 1) : body[j].tag = "sectPr"

SameCounts(fields) == \A f \in fields : OnRun.stats[f] = OffRun.stats[f]

\* C23 as stated: for every input, the blocks returned with preserve_breaks
\* on, with the Break blocks deleted, are the blocks returned with
\* preserve_breaks off, and the heading, paragraph, list and table statistics
\* of the two runs are equal.
C23_OnlyBreakBlocks ==
    BothReturned =>
        /\ WithoutBreaks(OnRun.blocks) = OffRun.blocks
        /\ SameCounts({"headings", "paragraphs", "lists", "tables"})

\* C23, amended: the flag affects the Break blocks and the grouping of list
\* items. In both runs the blocks other than Break blocks are the same up to
\* the grouping of list items (the same titles, headings, paragraphs and
\* tables and the same list items with the same ordered flags, in the same
\* order), the heading, paragraph and table statistics are equal, and the run
\* with preserve_breaks on counts at least as many lists of either kind. The
\* blocks without the Break blocks and the list statistics are equal exactly
\* when no break lies within a run of list items of one identity.
C23_BreaksAndListRuns ==
    BothReturned =>
        /\ Unlisted(WithoutBreaks(OnRun.blocks)) = Unlisted(OffRun.blocks)
        /\ WithoutBreaks(OffRun.blocks) = OffRun.blocks
        /\ SameCounts({"headings", "paragraphs", "tables"})
        /\ OnRun.stats.lists.numbered >= OffRun.stats.lists.numbered
        /\ OnRun.stats.lists.bulleted >= OffRun.stats.lists.bulleted
        /\ ~BreakInsideRun <=> WithoutBreaks(OnRun.blocks) = OffRun.blocks
        /\ ~BreakInsideRun <=> SameCounts({"lists"})

\* the second return for a body of two list items of one identity, the
\* second with a page break: with preserve_breaks on two List blocks around a
\* Break block, with it off one List block of the two items
C23_Witness ==
    /\ BothReturned
    /\ Len(body) = 2
    /\ BreakInsideRun
    /\ [p \in DOMAIN OnRun.blocks |-> OnRun.blocks[p].type] = <<"list", "break", "list">>
    /\ [p \in DOMAIN OffRun.blocks |-> OffRun.blocks[p].type] = <<"list">>
    /\ Len(OffRun.blocks[1].items) = 2
    /\ OnRun.stats.lists.numbered + OnRun.stats.lists.bulleted = 2
    /\ OffRun.stats.lists.numbered + OffRun.stats.lists.bulleted = 1

====
